---- MODULE Spec2Model ----
(***************************************************************************)
(* Daily AI Report System (src/app.py): six agents configured over a       *)
(* shared file tree, a five-step workflow and the AgentOS that serves      *)
(* them.  An agent's instructions are its program: the files it reads, the *)
(* file it saves, the knowledge call it makes.  The model keeps the file   *)
(* tree, the date frozen at import and the workflow's position.            *)
(***************************************************************************)
EXTENDS Naturals, Sequences, FiniteSets

VARIABLES day, dirs, fs, kbSources, wf, active, done, completed

vars == <<day, dirs, fs, kbSources, wf, active, done, completed>>

\* ------------------------------------------------------------------ bounds
\* Calendar days on which the process can be started.
MaxDay == 2
\* Names the speech tool may pick for an audio file besides "audio".
MaxAudioId == 1

Days == 1..MaxDay

\* ------------------------------------------------------------- dates, paths
\* datetime.now().strftime("%Y-%m-%d"): the day's number formatted as text.
strftime(d) ==
    <<"2024-05-01", "2024-05-02", "2024-05-03", "2024-05-04", "2024-05-05">>[d]

\* TODAY = datetime.now().strftime("%Y-%m-%d"), evaluated at import.
TODAY == strftime(day)

NoDate == ""

\* Path("reports"), Path("research"), Path("trends"), Path("podcasts").
reports_dir == <<"reports">>
research_dir == <<"research">>
trends_dir == <<"trends">>
podcasts_dir == <<"podcasts">>
\* podcasts_dir / TODAY
episode_dir(date) == podcasts_dir \o <<date>>
\* FileTools() without base_dir works from the current directory.
cwd == <<>>

\* A file name "<stem words>_<date>.<ext>" below a directory.
File(dir, stem, date, ext) ==
    [dir |-> dir, stem |-> stem, date |-> date, ext |-> ext]

\* FileTools(base_dir=b) resolves a relative file name against b.
Join(base, rel) == [rel EXCEPT !.dir = base \o rel.dir]

\* Substring test on a name: a date text or a word of the stem.
Contains(p, token) ==
    \/ (p.date # NoDate /\ p.date = token)
    \/ \E i \in DOMAIN p.stem : p.stem[i] = token

\* ------------------------------------------------------- the agents' config
\* tools=[..., FileTools(base_dir=...)] of each agent.
BaseDir(a) ==
    CASE a = "hn_researcher" -> research_dir
      [] a = "arxiv_researcher" -> research_dir
      [] a = "writer" -> cwd
      [] a = "trend_analyst" -> trends_dir
      [] a = "podcast_script_writer" -> cwd
      [] a = "podcast_producer" -> cwd

\* SaveName with the ArXiv researcher's file name copied from the HN
\* researcher's: the slip C10 has to catch.
SaveNameCopied(a, t) ==
    CASE a = "hn_researcher" -> File(<<>>, <<"hn", "reddit">>, t, "md")
      [] a = "arxiv_researcher" -> File(<<>>, <<"hn", "reddit">>, t, "md")
      [] a = "writer" -> File(<<"reports">>, <<"daily", "report">>, t, "md")
      [] a = "trend_analyst" -> File(<<>>, <<"trends">>, t, "md")
      [] a = "podcast_script_writer" ->
             File(<<"podcasts", t>>, <<"script">>, NoDate, "md")

\* The file name each agent's instructions tell it to save, for date text t.
SaveName(a, t) ==
    CASE a = "hn_researcher" -> File(<<>>, <<"hn", "reddit">>, t, "md")
      [] a = "arxiv_researcher" -> File(<<>>, <<"arxiv">>, t, "md")
      [] a = "writer" -> File(<<"reports">>, <<"daily", "report">>, t, "md")
      [] a = "trend_analyst" -> File(<<>>, <<"trends">>, t, "md")
      [] a = "podcast_script_writer" ->
             File(<<"podcasts", t>>, <<"script">>, NoDate, "md")

SavePath(a, t) == Join(BaseDir(a), SaveName(a, t))

\* The files the instructions tell an agent to read, as it names them.
hn_source(t) == File(<<"research">>, <<"hn", "reddit">>, t, "md")
arxiv_source(t) == File(<<"research">>, <<"arxiv">>, t, "md")
report_source(t) == File(<<"reports">>, <<"daily", "report">>, t, "md")
script_source(t) == File(<<"podcasts", t>>, <<"script">>, NoDate, "md")

\* ElevenLabsTools(target_directory=f"podcasts/{TODAY}"): the configuration
\* fixes the directory of the audio file and leaves its name to the tool.
generated(k) == <<"a1", "b2", "c3", "d4", "e5">>[k]
AudioStems == {<<"audio">>} \cup {<<generated(k)>> : k \in 1..MaxAudioId}
target_directory(t) == <<"podcasts", t>>
AudioFile(t, stem) == File(target_directory(t), stem, NoDate, "mp3")

\* ------------------------------------------------------------ the file tree
Exists(p) == p \in DOMAIN fs
Write(store, p, content) ==
    [q \in (DOMAIN store) \cup {p} |-> IF q = p THEN content ELSE store[q]]
Listing(dir) == {p \in DOMAIN fs : p.dir = dir}

NoFile == File(<<>>, <<>>, NoDate, "")

\* --------------------------------------------------------------- the agents
\* What a run of each agent does to the file tree and the knowledge calls.
\* Content: "full" from found material, "empty" for the file written
\* although nothing was found; a report's content is the pair of files it
\* was made from.

\* Steps 1-4 of the HN Reddit Researcher; the file is saved even if both
\* fetches return nothing.
hn_researcher(stories, posts) ==
    LET out == SavePath("hn_researcher", TODAY) IN
    /\ fs' = Write(fs, out, IF stories \/ posts THEN "full" ELSE "empty")
    /\ kbSources' = kbSources \cup {out}

\* Steps 1-3 of the ArXiv Researcher.
arxiv_researcher(papers) ==
    LET out == SavePath("arxiv_researcher", TODAY) IN
    /\ fs' = Write(fs, out, IF papers THEN "full" ELSE "empty")
    /\ kbSources' = kbSources \cup {out}

\* "look for any .md file containing ... in research directory"
FindByPattern(tokens) ==
    {p \in Listing(research_dir) :
        p.ext = "md" /\ \A t \in tokens : Contains(p, t)}

\* "Try to read file X - if not found, look for any .md file containing ..."
ReadOrFind(exact, tokens) ==
    IF Exists(Join(BaseDir("writer"), exact))
    THEN {Join(BaseDir("writer"), exact)}
    ELSE IF FindByPattern(tokens) # {} THEN FindByPattern(tokens) ELSE {NoFile}

\* Step 1 of the Report Writer: the HN/Reddit input.
WriterHnInput == ReadOrFind(hn_source(TODAY), {TODAY})
\* WriterArxivInput with the fallback matching on the date alone: the slip
\* C8 has to catch.
WriterArxivInputByDate == ReadOrFind(arxiv_source(TODAY), {TODAY})
\* Step 2 of the Report Writer: the ArXiv input.
WriterArxivInput == ReadOrFind(arxiv_source(TODAY), {TODAY, "arxiv"})

\* Steps 1-5 of the Report Writer; the report is saved even if the source
\* files are missing.
writer ==
    \E h \in WriterHnInput, x \in WriterArxivInput :
        LET out == SavePath("writer", TODAY)
        IN /\ fs' = Write(fs, out, [hn |-> h, arxiv |-> x])
           /\ kbSources' = kbSources \cup {out}

\* The Trend Analyst: searches the knowledge base, creates trends_{TODAY}.md.
trend_analyst ==
    LET out == SavePath("trend_analyst", TODAY) IN
    /\ fs' = Write(fs, out, IF kbSources = {} THEN "empty" ELSE "full")
    /\ kbSources' = kbSources \cup {out}

\* Steps 1-4 of the Podcast Script Writer; the script is saved even if the
\* report is missing.
podcast_script_writer ==
    LET out == SavePath("podcast_script_writer", TODAY)
        src == Join(BaseDir("podcast_script_writer"), report_source(TODAY))
    IN /\ fs' = Write(fs, out, IF Exists(src) THEN "full" ELSE "empty")
       /\ kbSources' = kbSources \cup {out}

\* Steps 1-4 of the Podcast Producer: generate_audio saves the audio in the
\* target directory under a name of the tool's choosing; production notes go
\* to the knowledge base.
podcast_producer ==
    \E stem \in AudioStems :
        LET out == AudioFile(TODAY, stem)
            src == Join(BaseDir("podcast_producer"), script_source(TODAY))
        IN /\ fs' = Write(fs, out, IF Exists(src) THEN "full" ELSE "empty")
           /\ kbSources' = kbSources \cup {File(<<>>, <<"production", "notes">>, TODAY, "")}

\* --------------------------------------------------------------------- Init
\* Module import on the first day: TODAY is formatted once, the directories
\* are created (mkdir(exist_ok=True)), nothing has run.
Init ==
    /\ day = 1
    /\ dirs = {reports_dir, research_dir, trends_dir, podcasts_dir,
               episode_dir(strftime(1))}
    /\ fs = [p \in {} |-> "empty"]
    /\ kbSources = {}
    /\ wf = "idle"
    /\ active = {}
    /\ done = {}
    /\ completed = {}

\* The process starts again, that day or a later one (serve(reload=True), or
\* a new launch): the module is imported afresh, TODAY is formatted anew and
\* a workflow run in flight is gone; the files stay.  Between two imports
\* TODAY keeps its value whatever the calendar says.
Reload ==
    \E d \in day..MaxDay :
        /\ day' = d
        /\ dirs' = dirs \cup {episode_dir(strftime(d))}
        /\ wf' = "idle"
        /\ active' = {}
        /\ done' = {}
        /\ UNCHANGED <<fs, kbSources, completed>>

\* ------------------------------------------------------------ the workflow
\* daily_workflow.steps
steps == <<"hn_researcher", "arxiv_researcher", "writer",
           "podcast_script_writer", "podcast_producer">>

StepSet == {steps[i] : i \in DOMAIN steps}

\* CanStart without the wait for the steps before: the slip C1 has to catch.
CanStartEarly(i) ==
    /\ steps[i] \notin done
    /\ steps[i] \notin active

\* A sequential workflow starts its i-th step when no step is running and
\* all the steps before it have finished.
CanStart(i) ==
    /\ active = {}
    /\ steps[i] \notin done
    /\ \A j \in 1..(i - 1) : steps[j] \in done

\* "Morning: Trigger 'Daily AI Report Workflow'"
StartWorkflow ==
    /\ wf \in {"idle", "completed"}
    /\ wf' = "running"
    /\ active' = {}
    /\ done' = {}
    /\ UNCHANGED <<day, dirs, fs, kbSources, completed>>

StartStep ==
    \E i \in DOMAIN steps :
        /\ wf = "running"
        /\ CanStart(i)
        /\ active' = active \cup {steps[i]}
        /\ UNCHANGED <<day, dirs, fs, kbSources, wf, done, completed>>

Finish(a) ==
    /\ wf = "running"
    /\ a \in active
    /\ active' = active \ {a}
    /\ done' = done \cup {a}
    /\ UNCHANGED <<day, dirs, wf, completed>>

FinishHn ==
    \E stories \in BOOLEAN, posts \in BOOLEAN :
        Finish("hn_researcher") /\ hn_researcher(stories, posts)
FinishArxiv ==
    \E papers \in BOOLEAN : Finish("arxiv_researcher") /\ arxiv_researcher(papers)
FinishWriter == Finish("writer") /\ writer
FinishScript == Finish("podcast_script_writer") /\ podcast_script_writer
FinishProducer == Finish("podcast_producer") /\ podcast_producer

\* The last step has finished: the run is complete.
CompleteWorkflow ==
    /\ wf = "running"
    /\ active = {}
    /\ done = StepSet
    /\ wf' = "completed"
    /\ completed' = completed \cup {TODAY}
    /\ UNCHANGED <<day, dirs, fs, kbSources, active, done>>

Next ==
    \/ Reload
    \/ StartWorkflow
    \/ StartStep
    \/ FinishHn
    \/ FinishArxiv
    \/ FinishWriter
    \/ FinishScript
    \/ FinishProducer
    \/ CompleteWorkflow

Spec == Init /\ [][Next]_vars

\* ------------------------------------------------- agents served on their own
\* AgentOS(agents=[...]) serves every agent for direct requests, outside any
\* workflow run.
Direct == UNCHANGED <<day, dirs, wf, active, done, completed>>

RunHn ==
    \E stories \in BOOLEAN, posts \in BOOLEAN :
        Direct /\ hn_researcher(stories, posts)
RunArxiv == \E papers \in BOOLEAN : Direct /\ arxiv_researcher(papers)
RunWriter == Direct /\ writer
RunTrend == Direct /\ trend_analyst
RunScript == Direct /\ podcast_script_writer
RunProducer == Direct /\ podcast_producer

\* Names a researcher's FileTools(base_dir=research_dir) can save besides
\* the demanded one, the case the writer's fallback search is written for:
\* another stem or extension with the date, or the file of another day.
OtherNames(t) ==
    {File(<<>>, <<"ai", "news">>, t, "md"),
     File(<<>>, <<"arxiv", "papers">>, t, "md"),
     File(<<>>, <<"hn", "reddit">>, t, "txt")}
      \cup {File(<<>>, <<"arxiv">>, strftime(d), "md") :
              d \in {e \in Days : strftime(e) # t}}

SaveOther ==
    \E n \in OtherNames(TODAY) :
        /\ fs' = Write(fs, Join(research_dir, n), "full")
        /\ UNCHANGED <<day, dirs, kbSources, wf, active, done,
                       completed>>

\* Direct requests to the agents within one process lifetime.
NextDirect ==
    \/ SaveOther
    \/ RunHn
    \/ RunArxiv
    \/ RunWriter
    \/ RunTrend
    \/ RunScript
    \/ RunProducer

SpecDirect == Init /\ [][NextDirect]_vars

\* ---------------------------------------------------- the documented outputs
\* The outputs the start-up banner lists for the five workflow steps.
DeclaredPath(a, t) ==
    CASE a = "hn_researcher" -> File(<<"research">>, <<"hn", "reddit">>, t, "md")
      [] a = "arxiv_researcher" -> File(<<"research">>, <<"arxiv">>, t, "md")
      [] a = "writer" -> File(<<"reports">>, <<"daily", "report">>, t, "md")
      [] a = "podcast_script_writer" ->
             File(<<"podcasts", t>>, <<"script">>, NoDate, "md")
      [] a = "podcast_producer" ->
             File(<<"podcasts", t>>, <<"audio">>, NoDate, "mp3")

\* ------------------------------------------------------------------- claims
Before(a) ==
    LET order == <<"hn_researcher", "arxiv_researcher", "writer",
                   "podcast_script_writer", "podcast_producer">>
        pos == CHOOSE i \in DOMAIN order : order[i] = a
    IN {order[j] : j \in 1..(pos - 1)}

\* C1: in a workflow run at most one stage is running, and a stage has
\* started only if every stage before it in the order HN/Reddit research,
\* ArXiv research, report writing, podcast script, podcast audio has finished.
C1_StagesRunInOrder ==
    /\ Cardinality(active) <= 1
    /\ \A a \in active \cup done : Before(a) \subseteq done

\* C1 witness: the last stage is running after the four before it finished.
C1_AudioStageRunning ==
    /\ wf = "running"
    /\ active = {"podcast_producer"}
    /\ Cardinality(done) = 4

\* C3 (as stated): every stage of the run that has finished has its
\* documented output file in the store under the name fixed by the date.
C3_FinishedStageHasArtifact ==
    \A a \in done : Exists(DeclaredPath(a, TODAY))

\* C4 (as stated): once a run for the date has completed, a further run for
\* that date adds no file name: the names are a function of date and kind.
C4_RerunAddsNoName ==
    [][(TODAY \in completed /\ TODAY' = TODAY) => DOMAIN fs' = DOMAIN fs]_vars

ReportFile == File(<<"reports">>, <<"daily", "report">>, TODAY, "md")

\* The step is a run of the report writer: the report for TODAY is written
\* or rewritten from other inputs.
WriterStep ==
    /\ ReportFile \in DOMAIN fs'
    /\ ReportFile \in DOMAIN fs => fs'[ReportFile] # fs[ReportFile]

ResearchFiles == {p \in DOMAIN fs : p.dir = <<"research">>}
HasWord(p, w) == \E i \in 1..Len(p.stem) : p.stem[i] = w

\* C8 (as stated): when an upstream file is missing under its exact name
\* and some file of the research directory has the run date in its name,
\* the writer uses such a file for that input.
C8_AnyDatedFileIsUsed ==
    [][WriterStep =>
        /\ (/\ hn_source(TODAY) \notin DOMAIN fs
            /\ \E p \in ResearchFiles : p.date = TODAY)
           => fs'[ReportFile].hn # NoFile
        /\ (/\ arxiv_source(TODAY) \notin DOMAIN fs
            /\ \E p \in ResearchFiles : p.date = TODAY)
           => fs'[ReportFile].arxiv # NoFile]_vars

\* C8 (amended): the writer takes the exact file when it exists; otherwise,
\* for the HN/Reddit input any .md file of the research directory whose name
\* contains the run date, for the ArXiv input any .md file whose name
\* contains the run date and "arxiv"; an input is empty only when the exact
\* read and that search both find nothing, and the report is written anyway.
C8_FallbackByDateAndArxiv ==
    [][WriterStep =>
        LET hnFound == {p \in ResearchFiles : p.ext = "md" /\ p.date = TODAY}
            axFound == {p \in ResearchFiles :
                          p.ext = "md" /\ p.date = TODAY /\ HasWord(p, "arxiv")}
            h == fs'[ReportFile].hn
            x == fs'[ReportFile].arxiv
        IN /\ IF hn_source(TODAY) \in DOMAIN fs THEN h = hn_source(TODAY)
              ELSE IF hnFound # {} THEN h \in hnFound ELSE h = NoFile
           /\ IF arxiv_source(TODAY) \in DOMAIN fs THEN x = arxiv_source(TODAY)
              ELSE IF axFound # {} THEN x \in axFound ELSE x = NoFile]_vars

\* C8 witness: the report for TODAY was made with the HN/Reddit input taken
\* from a fallback file and the ArXiv input empty although that file, dated
\* TODAY, is in the research directory.
C8_WriterUsedFallback ==
    /\ ReportFile \in DOMAIN fs
    /\ fs[ReportFile].hn \notin {NoFile, hn_source(TODAY)}
    /\ fs[ReportFile].hn \in ResearchFiles
    /\ fs[ReportFile].hn.date = TODAY
    /\ fs[ReportFile].arxiv = NoFile

\* The output a stage declares: its documented file, for the audio stage any
\* audio file of the date's episode directory.
OwnOutput(a, t, p) ==
    \/ p = DeclaredPath(a, t)
    \/ a = "podcast_producer" /\ p.dir = <<"podcasts", t>> /\ p.ext = "mp3"

Changed(p) ==
    \/ (p \in DOMAIN fs) # (p \in DOMAIN fs')
    \/ p \in DOMAIN fs /\ p \in DOMAIN fs' /\ fs'[p] # fs[p]

\* C10: the step in which a stage finishes changes no file other than that
\* stage's own declared output for the run date; every file of another kind
\* or another date stays as it was.
C10_StageWritesOnlyItsOutput ==
    [][\A a \in StepSet :
          (a \in done' /\ a \notin done) =>
              \A p \in (DOMAIN fs) \cup (DOMAIN fs') :
                  Changed(p) => OwnOutput(a, TODAY, p)]_vars

\* C10 witness: a stage has finished in a run for one date while the store
\* holds a full set of files of another date.
C10_StageFinishedBesideOtherDate ==
    /\ "arxiv_researcher" \in done
    /\ \E t \in {strftime(d) : d \in Days} :
          /\ t # TODAY
          /\ t \in completed
          /\ \A a \in {"hn_researcher", "arxiv_researcher", "writer"} :
                Exists(DeclaredPath(a, t))

====
